---- MODULE Spec2Model ----
(***************************************************************************)
(* Model of the server-side rendering middleware of                        *)
(* src/src/server/renderer.jsx: the middleware factory (getBuildInfo,      *)
(* global.TRU_BUILD_INFO), the request handler (the join of beforeRender   *)
(* and prepareCipher, the render context, the optional server-side         *)
(* rendering block, the encryption of the injected data, the assembly and  *)
(* sending of the document), and the client that opens the injected data.  *)
(***************************************************************************)
EXTENDS Integers, Sequences, FiniteSets, TLC

VARIABLES
    buildInfoFile,  \* content of <context>/.build-info on disk
    options,        \* the options the factory was called with
    factory,        \* position of factory(): "start", "ready", "rejected", "crashed"
    buildInfo,      \* the handler closure's buildInfo (NoValue before the read)
    TRU_BUILD_INFO, \* global.TRU_BUILD_INFO
    pc,             \* per request: position of the async handler
    hook,           \* per request: the promise of ops.beforeRender
    cipher,         \* per request: the promise of prepareCipher
    generated,      \* the IVs forge.random.getBytes produced so far, in order
    context,        \* per request: the render context of lines 92-98
    trace,          \* per request: calls made on the render primitive, res and next
    doc,            \* per request: the document handed to res.send
    sealed,         \* per request: the payload object that was encrypted
    opened,         \* per request: what the client got by opening window.INJ
    contextRef,     \* per request: which object its render context is (0: none yet)
    pure            \* the call of a function of the utilities, and what it returned

serverVars == <<buildInfoFile, options, factory, buildInfo, TRU_BUILD_INFO, pc,
                hook, cipher, generated, context, trace, doc, sealed, opened,
                contextRef>>

vars == <<buildInfoFile, options, factory, buildInfo, TRU_BUILD_INFO, pc, hook,
          cipher, generated, context, trace, doc, sealed, opened, contextRef, pure>>

(***************************************************************************)
(* Bounds of the model.                                                    *)
(***************************************************************************)
\* Largest value of options.maxSsrRounds that is tried.
MaxRoundsOption == 2

\* The requests handled (concurrently) by the one middleware.
Requests == {1, 2}

(***************************************************************************)
(* JavaScript values that the handler serializes: undefined, null, strings *)
(* (sequences of character codes) and objects (sequences of key/value      *)
(* entries, in insertion order).                                           *)
(***************************************************************************)
JUndefined == [t |-> "undefined", s |-> <<>>, kv |-> <<>>]
JNull == [t |-> "null", s |-> <<>>, kv |-> <<>>]
JStr(codes) == [t |-> "str", s |-> codes, kv |-> <<>>]
JObj(entries) == [t |-> "obj", s |-> <<>>, kv |-> entries]
Entry(key, value) == [k |-> key, v |-> value]

\* Character codes of the texts the model needs.
NameCONFIG == <<67, 79, 78, 70, 73, 71>>
NameISTATE == <<73, 83, 84, 65, 84, 69>>
NameSECRET == <<83, 69, 67, 82, 69, 84>>
NameAPI == <<65, 80, 73>>
TextNull == <<110, 117, 108, 108>>

\* Truthiness of a JavaScript value, as the || and ?: operators test it.
JNum(n) == [t |-> "num", s |-> <<n>>, kv |-> <<>>]
JNaN == [t |-> "nan", s |-> <<>>, kv |-> <<>>]
JFalse == [t |-> "false", s |-> <<>>, kv |-> <<>>]
Truthy(v) ==
    /\ ~(v.t \in {"undefined", "null", "nan", "false"})
    /\ ~(v.t = "str" /\ v.s = <<>>)
    /\ ~(v.t = "num" /\ v.s = <<0>>)

(***************************************************************************)
(* JSON.stringify: strings are quoted with the quote and the backslash     *)
(* escaped, object entries whose value is undefined are left out.          *)
(***************************************************************************)
RECURSIVE JsonEscape(_)
JsonEscape(codes) ==
    IF codes = <<>> THEN <<>>
    ELSE LET c == Head(codes)
         IN  (IF c = 34 \/ c = 92 THEN <<92, c>> ELSE <<c>>) \o JsonEscape(Tail(codes))

JsonQuote(codes) == <<34>> \o JsonEscape(codes) \o <<34>>

RECURSIVE JsonStringify(_)
RECURSIVE JsonEntries(_, _)
JsonEntries(entries, first) ==
    IF entries = <<>> THEN <<>>
    ELSE LET e == Head(entries)
         IN  IF e.v.t = "undefined" THEN JsonEntries(Tail(entries), first)
             ELSE (IF first THEN <<>> ELSE <<44>>)
                  \o JsonQuote(e.k) \o <<58>> \o JsonStringify(e.v)
                  \o JsonEntries(Tail(entries), FALSE)

JsonStringify(v) ==
    CASE v.t = "null" -> TextNull
      [] v.t = "str" -> JsonQuote(v.s)
      [] v.t = "obj" -> <<123>> \o JsonEntries(v.kv, TRUE) \o <<125>>

(***************************************************************************)
(* forge.util.createBuffer(text, 'utf8'): the UTF-8 bytes of the text      *)
(* (character codes below 2048).                                           *)
(***************************************************************************)
RECURSIVE EncodeUtf8(_)
EncodeUtf8(codes) ==
    IF codes = <<>> THEN <<>>
    ELSE LET c == Head(codes)
         IN  (IF c < 128 THEN <<c>> ELSE <<192 + (c \div 64), 128 + (c % 64)>>)
             \o EncodeUtf8(Tail(codes))

(***************************************************************************)
(* The AES-CBC cipher of node-forge.  AES itself is a library primitive:   *)
(* it is modelled as a keyed permutation of the 16-byte blocks.  The mode  *)
(* (chaining from the first block of the IV, PKCS#7 padding in finish())   *)
(* is modelled as the library does it.                                     *)
(***************************************************************************)
BlockSize == 16
IvLen == 32

RECURSIVE Xor(_, _)
Xor(a, b) ==
    IF a = 0 /\ b = 0 THEN 0
    ELSE ((a + b) % 2) + 2 * Xor(a \div 2, b \div 2)

XorBlock(x, y) == [i \in 1..BlockSize |-> Xor(x[i], y[i])]

AesEncryptBlock(key, block) ==
    [i \in 1..BlockSize |->
        (block[BlockSize + 1 - i] + key[i] + key[i + BlockSize]) % 256]

Pkcs7Pad(bytes) ==
    LET n == BlockSize - (Len(bytes) % BlockSize)
    IN  bytes \o [i \in 1..n |-> n]

RECURSIVE CbcEncrypt(_, _, _)
CbcEncrypt(key, prev, padded) ==
    IF padded = <<>> THEN <<>>
    ELSE LET c == AesEncryptBlock(key, XorBlock(SubSeq(padded, 1, BlockSize), prev))
         IN  c \o CbcEncrypt(key, c, SubSeq(padded, BlockSize + 1, Len(padded)))

\* cipher.start({ iv }); cipher.update(buffer); cipher.finish(); cipher.output.data
CipherOutput(key, iv, bytes) ==
    CbcEncrypt(key, SubSeq(iv, 1, BlockSize), Pkcs7Pad(bytes))

(***************************************************************************)
(* forge.util.encode64: base64 with '=' padding; a character is modelled   *)
(* by its index in the base64 alphabet, '=' by 64.                         *)
(***************************************************************************)
RECURSIVE encode64(_)
encode64(b) ==
    CASE Len(b) = 0 -> <<>>
      [] Len(b) = 1 -> <<b[1] \div 4, (b[1] % 4) * 16, 64, 64>>
      [] Len(b) = 2 -> <<b[1] \div 4, (b[1] % 4) * 16 + (b[2] \div 16),
                         (b[2] % 16) * 4, 64>>
      [] OTHER -> <<b[1] \div 4, (b[1] % 4) * 16 + (b[2] \div 16),
                    (b[2] % 16) * 4 + (b[3] \div 64), b[3] % 64>>
                  \o encode64(SubSeq(b, 4, Len(b)))

\* A Redux store, and store.getState().
Store(state) == JObj(<<Entry(<<115>>, state)>>)
getState(store) == store.kv[1].v

\* The payload object of lines 126-129.
Payload(configToInject, sanitized, store) ==
    JObj(<<Entry(NameCONFIG, IF Truthy(configToInject) THEN configToInject ELSE sanitized),
           Entry(NameISTATE, IF Truthy(store) THEN getState(store) ELSE JNull)>>)

\* An envelope that holds the cipher output without the IV in front of it.
INJWithoutIv(key, iv, payload) ==
    encode64(CipherOutput(key, iv, EncodeUtf8(JsonStringify(payload))))

\* const INJ = forge.util.encode64(`${iv}${cipher.output.data}`)
INJ(key, iv, payload) ==
    encode64(iv \o CipherOutput(key, iv, EncodeUtf8(JsonStringify(payload))))

(***************************************************************************)
(* The client side of the injection: it decodes window.INJ with the key    *)
(* of the build info shipped in the bundle.                                *)
(***************************************************************************)
OpenError == [ok |-> FALSE, value |-> JUndefined]
Opened(value) == [ok |-> TRUE, value |-> value]
NotOpened == [ok |-> FALSE, value |-> JNull]

RECURSIVE decode64(_)
decode64(c) ==
    IF Len(c) < 4 THEN <<>>
    ELSE LET b1 == c[1] * 4 + (c[2] \div 16)
             b2 == (c[2] % 16) * 16 + (c[3] \div 4)
             b3 == (c[3] % 4) * 64 + c[4]
         IN  CASE c[3] = 64 -> <<b1>>
               [] c[4] = 64 -> <<b1, b2>>
               [] OTHER -> <<b1, b2, b3>> \o decode64(SubSeq(c, 5, Len(c)))

AesDecryptBlock(key, block) ==
    [j \in 1..BlockSize |->
        (block[BlockSize + 1 - j] + 512 - key[BlockSize + 1 - j]
            - key[2 * BlockSize + 1 - j]) % 256]

RECURSIVE CbcDecrypt(_, _, _)
CbcDecrypt(key, prev, ct) ==
    IF ct = <<>> THEN <<>>
    ELSE LET c == SubSeq(ct, 1, BlockSize)
         IN  XorBlock(AesDecryptBlock(key, c), prev)
             \o CbcDecrypt(key, c, SubSeq(ct, BlockSize + 1, Len(ct)))

RECURSIVE DecodeUtf8(_)
DecodeUtf8(bytes) ==
    IF bytes = <<>> THEN <<>>
    ELSE IF bytes[1] < 128 THEN <<bytes[1]>> \o DecodeUtf8(Tail(bytes))
    ELSE IF Len(bytes) >= 2 /\ bytes[1] \in 192..223 /\ bytes[2] \in 128..191
         THEN <<(bytes[1] - 192) * 64 + (bytes[2] - 128)>>
              \o DecodeUtf8(SubSeq(bytes, 3, Len(bytes)))
    ELSE <<-1>>

\* JSON.parse over the payloads a document can carry: the payload whose
\* JSON text is the given one, a syntax error when there is none.
JsonParse(text, payloads) ==
    IF \E p \in payloads : JsonStringify(p) = text
    THEN Opened(CHOOSE p \in payloads : JsonStringify(p) = text)
    ELSE OpenError

Open(key, inj, payloads) ==
    LET bytes == decode64(inj)
        iv == SubSeq(bytes, 1, IvLen)
        ct == SubSeq(bytes, IvLen + 1, Len(bytes))
    IN  IF Len(bytes) < IvLen + BlockSize \/ Len(ct) % BlockSize # 0 THEN OpenError
        ELSE LET plain == CbcDecrypt(key, SubSeq(iv, 1, BlockSize), ct)
                 n == plain[Len(plain)]
             IN  IF n < 1 \/ n > BlockSize
                    \/ \E i \in (Len(plain) - n + 1)..Len(plain) : plain[i] # n
                 THEN OpenError
                 ELSE LET codes == DecodeUtf8(SubSeq(plain, 1, Len(plain) - n))
                      IN  IF \E i \in 1..Len(codes) : codes[i] < 0 THEN OpenError
                          ELSE JsonParse(codes, payloads)

(***************************************************************************)
(* Inputs.                                                                 *)
(***************************************************************************)
\* The encryption keys a build can have written into .build-info.
Keys == {[i \in 1..32 |-> i], [i \in 1..32 |-> (200 + 7 * i) % 256]}

BuildInfoFiles ==
    {[state |-> "absent", key |-> <<>>], [state |-> "corrupt", key |-> <<>>]}
    \cup {[state |-> "valid", key |-> k] : k \in Keys}

\* The values forge.random.getBytes(32) can produce.
IVs == {[i \in 1..IvLen |-> (3 * i) % 256], [i \in 1..IvLen |-> 255 - i]}

\* The code-split placeholders of an application: each names its chunk and
\* the render round in which its module is loaded (0: in none).
Split(id, chunk, readyAt) == [id |-> id, chunk |-> chunk, readyAt |-> readyAt]
NoApplication == [given |-> FALSE, splits |-> <<>>]
Scene(splits) == [given |-> TRUE, splits |-> splits]
Applications ==
    {NoApplication, Scene(<<>>), Scene(<<Split("S1", "test-chunk-a", 1)>>),
     Scene(<<Split("S1", "test-chunk-a", 0)>>)}

Options == [Application : Applications, maxSsrRounds : 0..MaxRoundsOption]

\* The config module, and sanitizedConfig = _.omit(config, 'SECRET').
config == JObj(<<Entry(NameAPI, JStr(<<97>>)), Entry(NameSECRET, JStr(<<120>>))>>)
\* An omit that leaves the object as it is.
omitNothing(object, key) == object

omit(object, key) == JObj(SelectSeq(object.kv, LAMBDA e : e.k # key))
sanitizedConfig == omit(config, NameSECRET)

\* What ops.beforeRender can resolve to; the first is the {} of the default
\* hook of lines 73-75.
NoScripts == [given |-> FALSE, list |-> <<>>]
Scripts(list) == [given |-> TRUE, list |-> list]
HookResult(c, x, s) == [configToInject |-> c, extraScripts |-> x, store |-> s]
InjectedConfig == JObj(<<Entry(NameAPI, JStr(<<233, 34>>))>>)
HookResults ==
    {HookResult(JUndefined, NoScripts, JUndefined),
     HookResult(InjectedConfig, NoScripts, JUndefined),
     HookResult(JUndefined, Scripts(<<"x1", "x2">>), Store(JStr(<<98>>))),
     HookResult(InjectedConfig, Scripts(<<"x1">>), Store(JStr(<<98>>)))}

\* The payloads a document of this middleware can carry.
Payloads == {Payload(h.configToInject, sanitizedConfig, h.store) : h \in HookResults}

(***************************************************************************)
(* Promises, the render context and the document.                          *)
(***************************************************************************)
NoHook == HookResult(JUndefined, NoScripts, JUndefined)
\* `config` is the second argument the hook was called with.
Unsettled(state) == [state |-> state, value |-> NoHook, config |-> JUndefined]
NoCipher(state) == [state |-> state, iv |-> <<>>, gen |-> 0]

\* const context = { chunks: [], splits: {} }
NewContext == [chunks |-> <<>>, splits |-> <<>>, status |-> 0]

\* One context object kept outside the handler and used by every request.
SharedObject(refs) == 1

\* `const context = {...}` at line 92 is evaluated in every call of the
\* handler: the object is a new one, whose reference no request holds yet.
NewObject(refs) ==
    1 + Cardinality({r \in DOMAIN refs : refs[r] # 0})

NoDocument ==
    [head |-> "", styles |-> <<>>, root |-> "", SPLITS |-> <<>>, INJ |-> <<>>,
     scripts |-> <<>>]

\* No function of the utilities is being called.
NoCall == [fn |-> "none", args |-> <<>>, done |-> TRUE, result |-> <<>>]

\* The state before the factory is called, for the .build-info files and the
\* options given.
ServerInit(files, opts) ==
    /\ buildInfoFile \in files
    /\ options \in opts
    /\ factory = "start"
    /\ buildInfo = [state |-> "absent", key |-> <<>>]
    /\ TRU_BUILD_INFO = [state |-> "absent", key |-> <<>>]
    /\ pc = [r \in Requests |-> "idle"]
    /\ hook = [r \in Requests |-> Unsettled("none")]
    /\ cipher = [r \in Requests |-> NoCipher("none")]
    /\ generated = <<>>
    /\ context = [r \in Requests |-> NewContext]
    /\ trace = [r \in Requests |-> <<>>]
    /\ doc = [r \in Requests |-> NoDocument]
    /\ sealed = [r \in Requests |-> JUndefined]
    /\ opened = [r \in Requests |-> NotOpened]
    /\ contextRef = [r \in Requests |-> 0]

Init ==
    /\ ServerInit(BuildInfoFiles, Options)
    /\ pure = NoCall

\* A factory that takes whatever the read gave it, error or not, and yields
\* a handler all the same.
getBuildInfoIgnoringError ==
    /\ factory = "start"
    /\ factory' = "ready"
    /\ buildInfo' = buildInfoFile
    /\ TRU_BUILD_INFO' = buildInfoFile
    /\ UNCHANGED <<buildInfoFile, options, pc, hook, cipher, generated, context,
                   trace, doc, sealed, opened, contextRef, pure>>

(***************************************************************************)
(* factory(webpackConfig, options), lines 67-75: reads the build info,     *)
(* sets the global and returns the handler.  getBuildInfo rejects when the *)
(* file cannot be read; JSON.parse throws inside the readFile callback     *)
(* when the content is no JSON, which settles no promise.                  *)
(***************************************************************************)
getBuildInfo ==
    /\ factory = "start"
    /\ CASE buildInfoFile.state = "absent" ->
              /\ factory' = "rejected"
              /\ UNCHANGED <<buildInfo, TRU_BUILD_INFO>>
         [] buildInfoFile.state = "corrupt" ->
              /\ factory' = "crashed"
              /\ UNCHANGED <<buildInfo, TRU_BUILD_INFO>>
         [] OTHER ->
              /\ factory' = "ready"
              /\ buildInfo' = buildInfoFile
              /\ TRU_BUILD_INFO' = buildInfoFile
    /\ UNCHANGED <<buildInfoFile, options, pc, hook, cipher, generated, context,
                   trace, doc, sealed, opened,
                   contextRef, pure>>

(***************************************************************************)
(* The handler up to its await, lines 77-88: it calls ops.beforeRender and *)
(* prepareCipher and waits for both.                                       *)
(***************************************************************************)
Request(r) ==
    /\ factory = "ready"
    /\ pc[r] = "idle"
    /\ pc' = [pc EXCEPT ![r] = "await"]
    /\ hook' = [hook EXCEPT ![r] =
                  [Unsettled("pending") EXCEPT !.config = sanitizedConfig]]
    /\ cipher' = [cipher EXCEPT ![r] = NoCipher("pending")]
    /\ UNCHANGED <<buildInfoFile, options, factory, buildInfo, TRU_BUILD_INFO,
                   generated, context, trace, doc, sealed, opened,
                   contextRef, pure>>

\* The promise of ops.beforeRender(req, sanitizedConfig) settles.
beforeRender(r) ==
    /\ hook[r].state = "pending"
    /\ \/ \E h \in HookResults :
            hook' = [hook EXCEPT ![r].state = "resolved", ![r].value = h]
       \/ hook' = [hook EXCEPT ![r].state = "rejected"]
    /\ UNCHANGED <<buildInfoFile, options, factory, buildInfo, TRU_BUILD_INFO, pc,
                   cipher, generated, context, trace, doc, sealed, opened,
                   contextRef, pure>>

\* A prepareCipher that keeps the first IV it obtained and hands it to every
\* later call instead of generating a new one.
prepareCipherCachedIv(r, iv) ==
    IF generated = <<>>
    THEN /\ generated' = Append(generated, iv)
         /\ cipher' = [cipher EXCEPT ![r] = [state |-> "resolved", iv |-> iv, gen |-> 1]]
    ELSE /\ generated' = generated
         /\ cipher' = [cipher EXCEPT ![r] =
                         [state |-> "resolved", iv |-> generated[1], gen |-> 1]]

\* prepareCipher(key), lines 47-59: the callback of forge.random.getBytes
\* resolves the promise with the bytes it was given.
prepareCipherResolve(r, iv) ==
    /\ generated' = Append(generated, iv)
    /\ cipher' = [cipher EXCEPT ![r] =
                    [state |-> "resolved", iv |-> iv, gen |-> Len(generated) + 1]]

prepareCipher(r) ==
    /\ cipher[r].state = "pending"
    /\ \/ \E iv \in IVs : prepareCipherResolve(r, iv)
       \/ /\ cipher' = [cipher EXCEPT ![r] = NoCipher("rejected")]
          /\ UNCHANGED generated
    /\ UNCHANGED <<buildInfoFile, options, factory, buildInfo, TRU_BUILD_INFO, pc,
                   hook, context, trace, doc, sealed, opened,
                   contextRef, pure>>

\* Promise.all rejects as soon as one of the two promises rejects: the await
\* throws, the handler's promise rejects and nothing is called on res.
Reject(r) ==
    /\ pc[r] = "await"
    /\ hook[r].state = "rejected" \/ cipher[r].state = "rejected"
    /\ pc' = [pc EXCEPT ![r] = "rejected"]
    /\ UNCHANGED <<buildInfoFile, options, factory, buildInfo, TRU_BUILD_INFO,
                   hook, cipher, generated, context, trace, doc, sealed, opened,
                   contextRef, pure>>

(***************************************************************************)
(* The rest of the handler, lines 90-176, runs without suspension once     *)
(* both promises are resolved.                                             *)
(***************************************************************************)
\* A React element: a plain object.
Element == JObj(<<>>)

\* Optional server-side rendering, lines 102-119: when an Application is
\* given, App becomes the element that wraps it in the StaticRouter (and in
\* the Provider when there is a store) and helmet is read.  The block calls
\* no render primitive: `rendered` lists the render rounds it runs, and the
\* context comes out as it went in.
ServerSideRendering(opts, ctx, store) ==
    [App |-> IF opts.Application.given THEN Element ELSE JUndefined,
     helmet |-> opts.Application.given,
     rendered |-> <<>>,
     context |-> ctx]

\* `${App || ''}` of line 160: the text a template literal makes of a value.
TemplateText(v) ==
    IF ~Truthy(v) THEN ""
    ELSE IF v.t = "obj" THEN "[object Object]"
    ELSE "text"

\* Lines 134-136: one stylesheet link per entry of context.chunks.
styles(chunks) ==
    [i \in 1..Len(chunks) |-> [chunk |-> chunks[i], href |-> <<"/", chunks[i], ".css">>]]

\* A document whose extra scripts are put after the main script.
DocumentExtrasLast(ssr, inj, extraScripts) ==
    [head |-> IF ssr.helmet THEN "helmet" ELSE "",
     styles |-> styles(ssr.context.chunks),
     root |-> TemplateText(ssr.App),
     SPLITS |-> ssr.context.splits,
     INJ |-> inj,
     scripts |-> <<"inj", "polyfills.js", "main.js">>
                 \o (IF extraScripts.given THEN extraScripts.list ELSE <<>>)]

\* The document of lines 141-176.
Document(ssr, inj, extraScripts) ==
    [head |-> IF ssr.helmet THEN "helmet" ELSE "",
     styles |-> styles(ssr.context.chunks),
     root |-> TemplateText(ssr.App),
     SPLITS |-> ssr.context.splits,
     INJ |-> inj,
     scripts |-> <<"inj", "polyfills.js">>
                 \o (IF extraScripts.given THEN extraScripts.list ELSE <<>>)
                 \o <<"main.js">>]

\* A response that sets the status whether or not the context carries one.
ResponseCallsAlwaysStatus(ctx) == <<"status", "send">>

\* Lines 133 and 141: what the handler calls on res, in order.
ResponseCalls(ctx) ==
    (IF ctx.status # 0 THEN <<"status">> ELSE <<>>) \o <<"send">>

Resume(r) ==
    /\ pc[r] = "await"
    /\ hook[r].state = "resolved"
    /\ cipher[r].state = "resolved"
    /\ LET h == hook[r].value
           ssr == ServerSideRendering(options, NewContext, h.store)
           payload == Payload(h.configToInject, sanitizedConfig, h.store)
           inj == INJ(buildInfo.key, cipher[r].iv, payload)
       IN  /\ contextRef' = [contextRef EXCEPT ![r] = NewObject(contextRef)]
           /\ context' = [context EXCEPT ![r] = ssr.context]
           /\ sealed' = [sealed EXCEPT ![r] = payload]
           /\ doc' = [doc EXCEPT ![r] = Document(ssr, inj, h.extraScripts)]
           /\ trace' = [trace EXCEPT ![r] =
                          @ \o ssr.rendered \o ResponseCalls(ssr.context)]
    /\ pc' = [pc EXCEPT ![r] = "sent"]
    /\ UNCHANGED <<buildInfoFile, options, factory, buildInfo, TRU_BUILD_INFO,
                   hook, cipher, generated, opened, pure>>

\* The client opens window.INJ of the document it received.
ClientOpen(r) ==
    /\ pc[r] = "sent"
    /\ opened[r] = NotOpened
    /\ opened' = [opened EXCEPT ![r] = Open(TRU_BUILD_INFO.key, doc[r].INJ, Payloads)]
    /\ UNCHANGED <<buildInfoFile, options, factory, buildInfo, TRU_BUILD_INFO, pc,
                   hook, cipher, generated, context, trace, doc, sealed,
                   contextRef, pure>>

\* How many times x is in seq.
Count(x, seq) == Cardinality({i \in 1..Len(seq) : seq[i] = x})

\* One request, from the call of the handler to the end of its promise.
Handler(r) ==
    \/ Request(r)
    \/ beforeRender(r)
    \/ prepareCipher(r)
    \/ Reject(r)
    \/ Resume(r)

Next ==
    \/ getBuildInfo
    \/ \E r \in Requests : Handler(r)

Spec == Init /\ [][Next]_vars

\* One request and the client that receives its document.
NextClient ==
    \/ getBuildInfo
    \/ Handler(1)
    \/ ClientOpen(1)

SpecClient == Init /\ [][NextClient]_vars

(***************************************************************************)
(* The transport layer aborts a request while its handler waits at the     *)
(* await of lines 85-88.  The handler registers no listener on req and     *)
(* reads no flag of it, so the abort changes nothing the handler looks at: *)
(* it is only written down among the events of the request.                *)
(***************************************************************************)
Abort(r) ==
    /\ pc[r] = "await"
    /\ Count("abort", trace[r]) = 0
    /\ trace' = [trace EXCEPT ![r] = Append(@, "abort")]
    /\ UNCHANGED <<buildInfoFile, options, factory, buildInfo, TRU_BUILD_INFO, pc,
                   hook, cipher, generated, context, doc, sealed, opened,
                   contextRef, pure>>

NextAbort ==
    \/ getBuildInfo
    \/ Handler(1)
    \/ Abort(1)

SpecAbort == Init /\ [][NextAbort]_vars

(***************************************************************************)
(* The factory is called once more in the same process, for a Webpack      *)
(* context of its own: lines 68-70 read the .build-info of that context    *)
(* and assign it to global.TRU_BUILD_INFO.  The handler this factory       *)
(* returns is left out; a read that fails assigns nothing.                 *)
(***************************************************************************)
AnotherFactory ==
    /\ factory = "ready"
    /\ \E file \in BuildInfoFiles :
          /\ file.state = "valid"
          /\ TRU_BUILD_INFO' = file
    /\ UNCHANGED <<buildInfoFile, options, factory, buildInfo, pc, hook, cipher,
                   generated, context, trace, doc, sealed, opened, contextRef,
                   pure>>

NextFactories ==
    \/ getBuildInfo
    \/ Handler(1)
    \/ AnotherFactory

SpecFactories == Init /\ [][NextFactories]_vars

(***************************************************************************)
(* Functions of the code that depend on their arguments only are applied   *)
(* to arguments drawn from bounded sets: `pure` holds the call and, once   *)
(* the function has returned, its result.  No server runs meanwhile.       *)
(***************************************************************************)
NoServer ==
    ServerInit({[state |-> "absent", key |-> <<>>]},
               {[Application |-> NoApplication, maxSsrRounds |-> 0]})

Call(fn, args) == [fn |-> fn, args |-> args, done |-> FALSE, result |-> <<>>]

Return(fn, result) ==
    /\ pure.fn = fn
    /\ ~pure.done
    /\ pure' = [pure EXCEPT !.done = TRUE, !.result = result]
    /\ UNCHANGED serverVars

(***************************************************************************)
(* The stylesheet links of lines 134-136, for any list of chunk names the  *)
(* render may leave in context.chunks, and any assetsByChunkName of the    *)
(* Webpack stats a response carries (part_001 51-63).                      *)
(***************************************************************************)
MaxChunks == 2

ChunkNames == {"test-chunk-a", "test-chunk-b", "test-chunk-c"}

ChunkLists == UNION {[1..n -> ChunkNames] : n \in 0..MaxChunks}

\* assetsByChunkName: the kinds of the files built for each chunk name; a
\* name with no file is not in the manifest.
Manifests == [ChunkNames -> {{}, {"js"}, {"css"}, {"js", "css"}}]

InitStyles ==
    /\ NoServer
    /\ \E c \in ChunkLists, m \in Manifests :
          pure = Call("styles", [chunks |-> c, assetsByChunkName |-> m])

ApplyStyles == Return("styles", styles(pure.args.chunks))

NextStyles == ApplyStyles

SpecStyles == InitStyles /\ [][NextStyles]_vars

(***************************************************************************)
(* launch(webpackConfig, options) of the server, as far as the port goes:  *)
(* line 94 normalises options.port, process.env.PORT or 3000, and line 168 *)
(* listens on the outcome.  Strings are over the characters '0', '8' and   *)
(* 'p'.                                                                    *)
(***************************************************************************)
MaxPortLen == 3

IsDigits(codes) == \A i \in 1..Len(codes) : codes[i] \in 48..57

RECURSIVE Decimal(_)
Decimal(codes) ==
    IF codes = <<>> THEN 0
    ELSE 10 * Decimal(SubSeq(codes, 1, Len(codes) - 1)) + (codes[Len(codes)] - 48)

\* _.toNumber: a number is returned as it is, a string is converted as the
\* unary plus converts it (the empty string to 0, decimal digits to their
\* value, other text to NaN), undefined gives NaN and null gives 0.
toNumber(value) ==
    CASE value.t \in {"num", "nan"} -> value
      [] value.t = "str" -> IF IsDigits(value.s) THEN JNum(Decimal(value.s)) ELSE JNaN
      [] value.t = "null" -> JNum(0)
      [] value.t = "false" -> JNum(0)
      [] OTHER -> JNaN

\* _.isFinite: a number that is neither NaN nor infinite.
isFinite(value) == value.t = "num"

\* _.isNumber: typeof value is 'number', which NaN is too.
isNumber(value) == value.t \in {"num", "nan"}

\* normalizePort(value), part_003 26-31.
normalizePort(value) ==
    LET port == toNumber(value)
    IN  IF isFinite(port) THEN port
        ELSE IF ~isNumber(port) THEN value
        ELSE JFalse

PortTexts == UNION {[1..n -> {48, 56, 112}] : n \in 0..MaxPortLen}

\* options.port
PortOptions ==
    {JUndefined, JNum(0), JNum(3000)} \cup {JStr(codes) : codes \in PortTexts}

\* process.env.PORT
PortEnvs == {JUndefined, JStr(<<56, 48>>), JStr(<<112>>)}

\* ops.port || process.env.PORT || 3000
portOrDefault(port, env) ==
    IF Truthy(port) THEN port ELSE IF Truthy(env) THEN env ELSE JNum(3000)

InitLaunch ==
    /\ NoServer
    /\ \E port \in PortOptions, env \in PortEnvs :
          pure = Call("launch", [port |-> port, PORT |-> env])

\* The result is ops.port, which httpServer.listen is called with.
launch ==
    Return("launch", normalizePort(portOrDefault(pure.args.port, pure.args.PORT)))

NextLaunch == launch

SpecLaunch == InitLaunch /\ [][NextLaunch]_vars

(***************************************************************************)
(* findNextOptionIndex of the dropdown utilities.  An option is a string   *)
(* or an object with a name and a value; a filter, when given, is a        *)
(* predicate on options, here the set of those it accepts.  Indices     *)
(* count from 0 as in the code.                                            *)
(***************************************************************************)
MaxOptions == 3

\* An option keeps one shape: the fields its kind lacks repeat one it has
\* and are never read.
StringOption(text) == [t |-> "str", text |-> text, name |-> text, value |-> text]
ObjectOption(name, value) == [t |-> "obj", text |-> value, name |-> name, value |-> value]

OptionItems == {StringOption("a"), StringOption("b"), ObjectOption("A", "a")}

OptionLists == UNION {[1..n -> OptionItems] : n \in 0..MaxOptions}

NoFilter == [given |-> FALSE, accepts |-> {}]
Filters == {NoFilter} \cup {[given |-> TRUE, accepts |-> a] : a \in SUBSET OptionItems}

\* optionValue(option), utils.js 32-34
optionValue(option) == IF option.t = "str" THEN option.text ELSE option.value

\* !filter || filter(item)
Passes(filter, item) == ~filter.given \/ item \in filter.accepts

\* Array.prototype.findIndex, and lodash findIndex with its third argument:
\* the index of the first element from fromIndex on that the predicate
\* accepts, -1 when there is none.  `accepted` holds what the predicate
\* says of each element.
findIndex(accepted, fromIndex) ==
    LET hits == {i \in fromIndex..(Len(accepted) - 1) : accepted[i + 1]}
    IN  IF hits = {} THEN -1
        ELSE CHOOSE i \in hits : \A j \in hits : i <= j

\* findOptionIndex(value, options, filter), utils.js 43-47
findOptionIndex(value, opts, filter) ==
    findIndex([i \in 1..Len(opts) |->
                  optionValue(opts[i]) = value /\ Passes(filter, opts[i])], 0)

\* A findNextOptionIndex that does not step past the current option.
findNextOptionIndexFromCurrent(value, opts, filter) ==
    LET index == findOptionIndex(value, opts, filter)
    IN  IF index >= 0 /\ index < Len(opts)
        THEN IF filter.given
             THEN findIndex([i \in 1..Len(opts) |-> opts[i] \in filter.accepts], index)
             ELSE index
        ELSE -1

\* findNextOptionIndex(value, options, filter), utils.js 56-62
findNextOptionIndex(value, opts, filter) ==
    LET index == findOptionIndex(value, opts, filter)
    IN  IF index >= 0 /\ index + 1 < Len(opts)
        THEN IF filter.given
             THEN findIndex([i \in 1..Len(opts) |-> opts[i] \in filter.accepts],
                            index + 1)
             ELSE index + 1
        ELSE -1

InitDropdown ==
    /\ NoServer
    /\ \E value \in {"a", "b", "c"}, opts \in OptionLists, filter \in Filters :
          pure = Call("findNextOptionIndex",
                      [value |-> value, options |-> opts, filter |-> filter])

FindNext ==
    Return("findNextOptionIndex",
           findNextOptionIndex(pure.args.value, pure.args.options, pure.args.filter))

NextDropdown == FindNext

SpecDropdown == InitDropdown /\ [][NextDropdown]_vars

(***************************************************************************)
(* searchOption of the dropdown utilities.  Names, values and the search   *)
(* query are texts, given by the codes of their characters.                *)
(***************************************************************************)
\* The name property of an option object that has none.
NoName == <<-1>>

\* 'a', 'ab', { name: 'b', value: 'x' } and { value: 'ac' }
SearchItems ==
    {StringOption(<<97>>), StringOption(<<97, 98>>),
     ObjectOption(<<98>>, <<120>>), ObjectOption(NoName, <<97, 99>>)}

SearchLists == UNION {[1..n -> SearchItems] : n \in 0..MaxOptions}

SearchFilters ==
    {NoFilter} \cup {[given |-> TRUE, accepts |-> a] : a \in SUBSET SearchItems}

\* The queries 'a', 'b' and 'ab'.
Searches == {<<97>>, <<98>>, <<97, 98>>}

\* The current values 'a', 'x', 'ac' and 'z', which no option has.
SearchValues == {<<97>>, <<120>>, <<97, 99>>, <<122>>}

\* optionName(option), utils.js 22-25
optionName(option) ==
    IF option.t = "str" THEN option.text
    ELSE IF option.name = NoName THEN option.value ELSE option.name

\* String.prototype.startsWith
startsWith(text, search) ==
    Len(search) <= Len(text) /\ SubSeq(text, 1, Len(search)) = search

\* searchOption(search, options, value, filter), utils.js 72-82: what is
\* returned is the number `index`.
searchOption(search, opts, value, filter) ==
    LET found == findOptionIndex(value, opts, filter)
        stepped == IF Len(search) = 1 THEN found + 1 ELSE found
        startIndex == IF stepped < 0 \/ stepped = Len(opts) THEN 0 ELSE stepped
        lookup == [i \in 1..Len(opts) |->
                      startsWith(optionName(opts[i]), search) /\ Passes(filter, opts[i])]
        index == findIndex(lookup, startIndex)
    IN  JNum(IF index < 0 /\ startIndex > 0 THEN findIndex(lookup, 0) ELSE index)

InitSearch ==
    /\ NoServer
    /\ \E search \in Searches, opts \in SearchLists, value \in SearchValues,
          filter \in SearchFilters :
          pure = Call("searchOption", [search |-> search, options |-> opts,
                                       value |-> value, filter |-> filter])

Search ==
    Return("searchOption",
           searchOption(pure.args.search, pure.args.options, pure.args.value,
                        pure.args.filter))

NextSearch == Search

SpecSearch == InitSearch /\ [][NextSearch]_vars

(***************************************************************************)
(* Properties.                                                             *)
(***************************************************************************)

\* The number of render rounds (calls of the render primitive) of a request.
rounds(r) == Count("render", trace[r])
sendCalls(r) == Count("send", trace[r])
nextCalls(r) == Count("next", trace[r])
NeverReady(app) == \E i \in 1..Len(app.splits) : app.splits[i].readyAt = 0
ReadyInFirstRound(app) == \A i \in 1..Len(app.splits) : app.splits[i].readyAt = 1

\* C1: with maxSsrRounds >= 1 a request that is answered has run at most
\* maxSsrRounds render rounds, and when the application holds a split that
\* never becomes ready it has run exactly maxSsrRounds rounds and the
\* document was sent once, with the split snapshot.
C1_RoundBudget ==
    \A r \in Requests :
        (pc[r] = "sent" /\ options.Application.given /\ options.maxSsrRounds >= 1)
        => /\ rounds(r) <= options.maxSsrRounds
           /\ NeverReady(options.Application)
              => (rounds(r) = options.maxSsrRounds /\ sendCalls(r) = 1)

\* C2: with rendering enabled, an application without placeholders, or
\* whose splits are all ready in the first round, is answered after exactly
\* one render round.
C2_StableAfterOneRound ==
    \A r \in Requests :
        (pc[r] = "sent" /\ options.Application.given /\ options.maxSsrRounds >= 1
            /\ ReadyInFirstRound(options.Application))
        => rounds(r) = 1

\* C3: with maxSsrRounds = 0 no render round is run and the document that
\* is sent has an empty root markup.
C3_NoRoundsNoMarkup ==
    \A r \in Requests :
        (pc[r] = "sent" /\ options.maxSsrRounds = 0)
        => (rounds(r) = 0 /\ doc[r].root = "")

\* C5: when beforeRender or prepareCipher fails, send is not called for the
\* request and the failure is reported exactly once through the error
\* callback the handler was called with.
C5_FailureReportedOnce ==
    \A r \in Requests :
        pc[r] = "rejected" => (sendCalls(r) = 0 /\ nextCalls(r) = 1)

\* C8: every request that got a cipher got the IV of a generation of its
\* own: no generation of forge.random.getBytes serves two requests, each
\* generation serves one, and the envelope that is sent starts with the IV
\* of the request's own generation.
C8_FreshIvPerRequest ==
    /\ \A r \in Requests :
          cipher[r].state = "resolved"
          => /\ cipher[r].gen \in 1..Len(generated)
             /\ generated[cipher[r].gen] = cipher[r].iv
    /\ \A r1, r2 \in Requests :
          (r1 # r2 /\ cipher[r1].state = "resolved" /\ cipher[r2].state = "resolved")
          => cipher[r1].gen # cipher[r2].gen
    /\ Len(generated) = Cardinality({r \in Requests : cipher[r].state = "resolved"})
    /\ \A r \in Requests :
          pc[r] = "sent"
          => SubSeq(decode64(doc[r].INJ), 1, IvLen) = generated[cipher[r].gen]

\* Two answered requests whose IVs have the same value, from two generations.
C8_Witness ==
    /\ pc[1] = "sent" /\ pc[2] = "sent"
    /\ cipher[1].iv = cipher[2].iv
    /\ cipher[1].gen # cipher[2].gen

\* C9: the envelope of a document is the base64 text of the IV followed by
\* the cipher output, and opening it with the key it was sealed with gives
\* back exactly the payload that was sealed.
C9_RoundTrip ==
    /\ pc[1] = "sent"
       => decode64(doc[1].INJ)
          = cipher[1].iv \o CipherOutput(buildInfo.key, cipher[1].iv,
                                         EncodeUtf8(JsonStringify(sealed[1])))
    /\ opened[1] # NotOpened => opened[1] = Opened(sealed[1])

\* A payload with an injected config (a non-ASCII character and a quote in
\* it) and a store state was sealed and opened.
C9_Witness ==
    /\ opened[1].ok
    /\ sealed[1] = Payload(InjectedConfig, sanitizedConfig, Store(JStr(<<98>>)))

statusCalls(r) == Count("status", trace[r])

C13_NoHandlerWithoutBuildInfo ==
    buildInfoFile.state # "valid"
    => /\ factory \in {"start", "rejected", "crashed"}
       /\ \A r \in Requests : pc[r] = "idle" /\ trace[r] = <<>>

\* The factory ran on a context folder without .build-info and failed.
C13_Witness ==
    /\ buildInfoFile.state = "absent"
    /\ factory = "rejected"
    /\ \A r \in Requests : pc[r] = "idle"

\* C14: a request that is answered had send called exactly once, as the
\* last call on its response and with the whole document; status was
\* called at most once, only when its context carries a status, and before
\* send.
C14_SendOnceStatusBefore ==
    \A r \in Requests :
        pc[r] = "sent"
        => /\ sendCalls(r) = 1
           /\ trace[r][Len(trace[r])] = "send"
           /\ doc[r].INJ # <<>>
           /\ doc[r].scripts # <<>>
           /\ statusCalls(r) <= 1
           /\ statusCalls(r) = 1 => context[r].status # 0

\* A request was answered: send was called and no status was set.
C14_Witness ==
    \E r \in Requests :
        pc[r] = "sent" /\ trace[r] = <<"send">> /\ doc[r].INJ # <<>>

C16_NothingAfterAbort ==
    \A r \in Requests :
        \A i, j \in 1..Len(trace[r]) :
            (i < j /\ trace[r][i] = "abort") => trace[r][j] \notin {"render", "send"}

\* The extra scripts beforeRender gave for a request, none when it gave none.
extras(r) ==
    IF hook[r].value.extraScripts.given THEN hook[r].value.extraScripts.list ELSE <<>>

\* C17 as stated: the scripts of a document are the inline injection script,
\* the polyfills, runtime and main scripts, and then the extra scripts in
\* the order given.
C17_ExtrasAfterMain ==
    \A r \in Requests :
        pc[r] = "sent"
        => doc[r].scripts
             = <<"inj", "polyfills.js", "runtime.js", "main.js">> \o extras(r)

\* C17: the scripts of a document are the inline injection script, the
\* polyfills script, the extra scripts in the order given and unmodified,
\* and the main script last; there is no runtime script.
C17_ExtrasBeforeMain ==
    \A r \in Requests :
        pc[r] = "sent"
        => doc[r].scripts = <<"inj", "polyfills.js">> \o extras(r) \o <<"main.js">>

\* A document with two extra scripts was sent.
C17_Witness ==
    \E r \in Requests :
        /\ pc[r] = "sent"
        /\ extras(r) = <<"x1", "x2">>
        /\ doc[r].scripts[3] = "x1"

\* C18: once global.TRU_BUILD_INFO holds the build information it is not
\* assigned another value, however many factories are called and requests
\* handled: every reader sees the value of the first load.
C18_WrittenOnce ==
    [][TRU_BUILD_INFO.state = "valid" => TRU_BUILD_INFO' = TRU_BUILD_INFO]_vars

\* What is given to normalizePort holds a number: it is one, or it is a
\* text of decimal digits.
IsNumeric(value) ==
    value.t = "num" \/ (value.t = "str" /\ value.s # <<>> /\ IsDigits(value.s))

\* C19: launch listens on the port as a number when the value given is
\* numeric, on the value itself when it is a text that is no number (a
\* pipe name), and gets false otherwise.
C19_PortOrPipe ==
    (pure.fn = "launch" /\ pure.done)
    => LET value == portOrDefault(pure.args.port, pure.args.PORT)
       IN  IF IsNumeric(value)
           THEN pure.result = (IF value.t = "num" THEN value ELSE JNum(Decimal(value.s)))
           ELSE IF value.t = "str" THEN pure.result = value
           ELSE pure.result = JFalse

\* The current option: the first that has the value and passes the filter.
Current(value, opts, filter) ==
    {i \in 0..(Len(opts) - 1) :
        /\ optionValue(opts[i + 1]) = value /\ Passes(filter, opts[i + 1])
        /\ \A j \in 0..(i - 1) :
              ~(optionValue(opts[j + 1]) = value /\ Passes(filter, opts[j + 1]))}

\* The options behind the current one that pass the filter.
Later(current, opts, filter) ==
    {i \in (current + 1)..(Len(opts) - 1) : Passes(filter, opts[i + 1])}

\* C20: findNextOptionIndex returns the index of the first option behind
\* the current one that passes the filter, and -1 when the value is not
\* among the filtered options, when the current option is the last one or
\* when no later option passes; it never returns an index at or before the
\* current option.
C20_NextOption ==
    (pure.fn = "findNextOptionIndex" /\ pure.done)
    => LET value == pure.args.value
           opts == pure.args.options
           filter == pure.args.filter
           current == Current(value, opts, filter)
       IN  IF current = {}
           THEN pure.result = -1
           ELSE \A c \in current :
                   IF Later(c, opts, filter) = {}
                   THEN pure.result = -1
                   ELSE /\ pure.result \in Later(c, opts, filter)
                        /\ \A i \in Later(c, opts, filter) : pure.result <= i
                        /\ pure.result > c

\* With a filter, the value is held by two options of which the filter
\* rejects the first, and the next option that passes is not the one right
\* behind the current one.
C20_Witness ==
    /\ pure.fn = "findNextOptionIndex" /\ pure.done
    /\ pure.args.filter.given
    /\ pure.args.value = "a"
    /\ Len(pure.args.options) = 3
    /\ pure.args.options[1] = StringOption("a")
    /\ pure.args.options[2] = StringOption("b")
    /\ StringOption("b") \notin pure.args.filter.accepts
    /\ pure.result = 2

\* The options a search looks at, in the order it looks at them: from the
\* current option, or from the one behind it when the query is a single
\* character, to the end of the list and then from its start.
SearchOrder(search, opts, value, filter) ==
    LET current == Current(value, opts, filter)
        c == IF current = {} THEN -1 ELSE CHOOSE i \in current : TRUE
        from == IF c < 0 THEN 0
                ELSE (IF Len(search) = 1 THEN c + 1 ELSE c) % Len(opts)
    IN  [k \in 1..Len(opts) |-> (from + k - 1) % Len(opts)]

\* The index of the option a search finds, -1 when it finds none.
Found(search, opts, value, filter) ==
    LET order == SearchOrder(search, opts, value, filter)
        hits == {k \in 1..Len(opts) :
                    /\ startsWith(optionName(opts[order[k] + 1]), search)
                    /\ Passes(filter, opts[order[k] + 1])}
    IN  IF hits = {} THEN -1
        ELSE order[CHOOSE k \in hits : \A j \in hits : k <= j]

\* C21: searchOption returns the value of the option found, null when no
\* option matches; the option found is the first whose name starts with
\* the query and that passes the filter, looked for from the current option
\* (from the one behind it for a query of one character) and on from the
\* start of the list.
C21_SearchReturnsValue ==
    (pure.fn = "searchOption" /\ pure.done)
    => LET opts == pure.args.options
           found == Found(pure.args.search, opts, pure.args.value, pure.args.filter)
       IN  pure.result =
               IF found < 0 THEN JNull ELSE JStr(optionValue(opts[found + 1]))

\* The entries of the config module other than SECRET.
PublicEntries == {config.kv[i] : i \in {j \in 1..Len(config.kv) : config.kv[j].k # NameSECRET}}

\* An object that holds the entries of the config module other than
\* SECRET, each once, and nothing else.
IsPublicConfig(object) ==
    /\ object.t = "obj"
    /\ {object.kv[i] : i \in 1..Len(object.kv)} = PublicEntries
    /\ Len(object.kv) = Cardinality(PublicEntries)

\* C22: the config a request's beforeRender is called with is the config
\* module without its SECRET entry, and when the hook gives no
\* configToInject that same object is the CONFIG of the payload that is
\* sealed into the envelope of the document.
C22_NoSecretByDefault ==
    \A r \in Requests :
        /\ hook[r].state # "none" => IsPublicConfig(hook[r].config)
        /\ (pc[r] = "sent" /\ ~Truthy(hook[r].value.configToInject))
           => /\ sealed[r].kv[1].k = NameCONFIG
              /\ sealed[r].kv[1].v = hook[r].config
              /\ IsPublicConfig(sealed[r].kv[1].v)
              /\ doc[r].INJ = INJ(buildInfo.key, cipher[r].iv, sealed[r])

\* The config module holds a SECRET, and a request whose hook gave no
\* configToInject was answered.
C22_Witness ==
    /\ \E i \in 1..Len(config.kv) : config.kv[i].k = NameSECRET
    /\ \E r \in Requests :
          /\ pc[r] = "sent"
          /\ hook[r].value.configToInject = JUndefined
          /\ Len(sealed[r].kv[1].v.kv) = 1

====
